---- MODULE Spec2Model ----
(***************************************************************************)
(* Model of sys-core/service/config/config.go: the random byte helper, the *)
(* static credential loader, the remote trust extractor and the automated  *)
(* certificate manager set-up.  Every operation is one action; the         *)
(* variable of a component records the last call made to it (its inputs    *)
(* and what it returned) next to the state that persists between calls.    *)
(***************************************************************************)
EXTENDS Integers, Sequences, FiniteSets, TLC

VARIABLES
    rndCall,    \* last call of GenRandomByteSlice: length, returned slice, error
    certFiles,  \* the files at the certificate and key paths
    credCall,   \* last call of LoadTLSKeypair: paths, returned credentials, error
    host,       \* the remote endpoint domain:443 the trust extractor dials
    outFile,    \* content of the file at DownloadCACert's outputPath
    trustCall,  \* last call of getCACert / DownloadCACert
    mgr         \* what the last GenerateTLSConfig call built and returned

vars == <<rndCall, certFiles, credCall, host, outFile, trustCall, mgr>>

(***************************************************************************)
(* Bounds of the model.                                                    *)
(***************************************************************************)
MaxLen == 3       \* largest length passed to GenRandomByteSlice
MaxChain == 2     \* longest peer certificate chain a host presents
NumKeys == 2      \* distinct key pairs the certificate/key files may hold
MaxDomains == 2   \* longest domain list passed to GenerateTLSConfig
MaxRenewals == 2  \* renewals of one cached certificate

NoErr == "nil"

(***************************************************************************)
(* GenRandomByteSlice                                                      *)
(***************************************************************************)
\* const legalChars, as byte values: "0123456789" "0" "A".."Z" "a".."z" "-" "_"
legalChars ==
    [i \in 1..65 |->
        IF i <= 10 THEN 47 + i
        ELSE IF i = 11 THEN 48
        ELSE IF i <= 37 THEN 65 + (i - 12)
        ELSE IF i <= 63 THEN 97 + (i - 38)
        ELSE IF i = 64 THEN 45
        ELSE 95]

\* rand.Int(rand.Reader, len(legalChars)): a number in [0, len), or the reader fails.
RandFail == -1
RandDraws == {0, 10, 11, 37, 63, 64}

\* make([]byte, length): a slice of length zero bytes
MakeBytes(length) == [i \in 1..length |-> 0]

\* rnd := make([]byte, length), as written in the source
InitialSlice(length) == MakeBytes(length)

\* the loop body, iterations i..length, over the outcomes `draws` of rand.Int
RECURSIVE RandLoop(_, _, _, _)
RandLoop(rnd, i, length, draws) ==
    IF i > length THEN [rnd |-> rnd, err |-> NoErr]
    ELSE IF draws[i] = RandFail THEN [rnd |-> <<>>, err |-> "rand.Reader"]
    ELSE RandLoop(Append(rnd, legalChars[draws[i] + 1]), i + 1, length, draws)

GenRandomByteSliceResult(length, draws) ==
    RandLoop(InitialSlice(length), 1, length, draws)

GenRandomByteSlice ==
    \E length \in 0..MaxLen :
      \E draws \in [1..length -> RandDraws \cup {RandFail}] :
        LET r == GenRandomByteSliceResult(length, draws) IN
        /\ rndCall' = [called |-> TRUE, length |-> length, rnd |-> r.rnd, err |-> r.err]
        /\ UNCHANGED <<certFiles, credCall, host, outFile, trustCall, mgr>>

StartRandom == rndCall = [called |-> FALSE, length |-> 0, rnd |-> <<>>, err |-> NoErr]

(***************************************************************************)
(* Static credential loader: LoadTLSKeypair                                *)
(***************************************************************************)
Paths == {"server.crt", "server.key"}

\* A PEM block of a file: absent, present with DER that does not parse, or
\* parsable and belonging to key pair `key` (a certificate's public key, or a
\* private key).
Blocks ==
    {[state |-> st, key |-> 0] : st \in {"none", "malformed"}}
    \cup {[state |-> "ok", key |-> n] : n \in 1..NumKeys}
NoBlock == [state |-> "none", key |-> 0]

\* What a file at a path may be: missing, present but unreadable, or readable
\* with its first CERTIFICATE block and its first PRIVATE KEY block (a file
\* with neither holds no PEM data the loader looks for).
FileContent ==
    {[kind |-> k, cert |-> NoBlock, key |-> NoBlock] : k \in {"missing", "unreadable"}}
    \cup {[kind |-> "readable", cert |-> c, key |-> k] : c \in Blocks, k \in Blocks}

NoKeyPair == [cert |-> 0, key |-> 0]

\* ioutil/os.ReadFile as tls.LoadX509KeyPair uses it
ReadFails(content) == content.kind \in {"missing", "unreadable"}

\* tls.LoadX509KeyPair(certFile, keyFile): read both files, find the CERTIFICATE
\* block of the first and the PRIVATE KEY block of the second, parse both,
\* compare the public keys.
LoadX509KeyPair(certContent, keyContent) ==
    IF ReadFails(certContent) THEN [pair |-> NoKeyPair, err |-> "read certFile"]
    ELSE IF ReadFails(keyContent) THEN [pair |-> NoKeyPair, err |-> "read keyFile"]
    ELSE IF certContent.cert.state = "none"
        THEN [pair |-> NoKeyPair, err |-> "tls: failed to find certificate PEM data"]
    ELSE IF keyContent.key.state = "none"
        THEN [pair |-> NoKeyPair, err |-> "tls: failed to find private key PEM data"]
    ELSE IF certContent.cert.state = "malformed"
        THEN [pair |-> NoKeyPair, err |-> "x509: malformed certificate"]
    ELSE IF keyContent.key.state = "malformed"
        THEN [pair |-> NoKeyPair, err |-> "tls: failed to parse private key"]
    ELSE IF certContent.cert.key # keyContent.key.key
        THEN [pair |-> NoKeyPair, err |-> "tls: private key does not match public key"]
    ELSE [pair |-> [cert |-> certContent.cert.key, key |-> keyContent.key.key],
          err |-> NoErr]

\* credentials.TransportCredentials: nil, or credentials.NewTLS(config)
NilCreds == [nil |-> TRUE, Certificates |-> <<>>, ClientAuth |-> "none"]
NewTLS(config) ==
    [nil |-> FALSE, Certificates |-> config.Certificates, ClientAuth |-> config.ClientAuth]

\* the slip of building the credentials whatever LoadX509KeyPair returned
LoadTLSKeypairIgnoringErr(certContent, keyContent) ==
    LET loaded == LoadX509KeyPair(certContent, keyContent) IN
    [creds |-> NewTLS([Certificates |-> <<loaded.pair>>, ClientAuth |-> "NoClientCert"]),
     err |-> loaded.err]

LoadTLSKeypairResult(certContent, keyContent) ==
    LET loaded == LoadX509KeyPair(certContent, keyContent) IN
    IF loaded.err # NoErr THEN [creds |-> NilCreds, err |-> loaded.err]
    ELSE [creds |-> NewTLS([Certificates |-> <<loaded.pair>>,
                            ClientAuth |-> "NoClientCert"]),
          err |-> NoErr]

LoadTLSKeypair ==
    \E certPath \in Paths, keyPath \in Paths :
        LET r == LoadTLSKeypairResult(certFiles[certPath], certFiles[keyPath]) IN
        /\ credCall' = [called |-> TRUE, certPath |-> certPath, keyPath |-> keyPath,
                        creds |-> r.creds, err |-> r.err]
        /\ UNCHANGED <<rndCall, certFiles, host, outFile, trustCall, mgr>>

StartCreds ==
    /\ certFiles \in [Paths -> FileContent]
    /\ credCall = [called |-> FALSE, certPath |-> "server.crt", keyPath |-> "server.key",
                   creds |-> NilCreds, err |-> NoErr]

(***************************************************************************)
(* Remote trust extractor: getCACert, DownloadCACert                       *)
(***************************************************************************)
\* *x509.Certificate: nil, or a certificate with its DER bytes and its IsCA flag
NoCert == [nil |-> TRUE, Raw |-> <<>>, IsCA |-> FALSE]

\* DER byte strings of one, two, three and forty-nine bytes: base64 pads the
\* first two, and the last one fills more than one line of a PEM body.
RawBytes ==
    {<<48>>, <<48, 130>>, <<48, 130, 255>>, [i \in 1..49 |-> (i * 37) % 256]}

Certs == {[nil |-> FALSE, Raw |-> r, IsCA |-> ca] : r \in RawBytes, ca \in BOOLEAN}

\* conn.ConnectionState().PeerCertificates, in presentation order
Chains == UNION {[1..n -> Certs] : n \in 0..MaxChain}

\* The remote endpoint domain:443: whether tls.Dial succeeds, and the chain
\* the server is configured with.
Hosts == [dialOk : BOOLEAN, chain : Chains]

ErrDial == "dial tcp: handshake failed"
ErrNoCA == "unable to get CA from server: cert does not exist"

\* for _, cert := range certs { if cert.IsCA { return cert, nil } }
RECURSIVE RangeCerts(_, _)
RangeCerts(certs, i) ==
    IF i > Len(certs) THEN [cert |-> NoCert, err |-> ErrNoCA]
    ELSE IF certs[i].IsCA THEN [cert |-> certs[i], err |-> NoErr]
    ELSE RangeCerts(certs, i + 1)

\* the slip of keeping the last CA-marked certificate of the chain
RECURSIVE RangeCertsLast(_, _, _)
RangeCertsLast(certs, i, found) ==
    IF i > Len(certs) THEN found
    ELSE RangeCertsLast(certs, i + 1,
            IF certs[i].IsCA THEN [cert |-> certs[i], err |-> NoErr] ELSE found)

getCACertLastCA(h) ==
    IF ~h.dialOk THEN [cert |-> NoCert, err |-> ErrDial]
    ELSE RangeCertsLast(h.chain, 1, [cert |-> NoCert, err |-> ErrNoCA])

getCACertResult(h) ==
    IF ~h.dialOk THEN [cert |-> NoCert, err |-> ErrDial]
    ELSE RangeCerts(h.chain, 1)

\* encoding/base64 StdEncoding alphabet, as byte values: A-Z a-z 0-9 + /
B64Alphabet ==
    [i \in 1..64 |->
        IF i <= 26 THEN 64 + i
        ELSE IF i <= 52 THEN 96 + (i - 26)
        ELSE IF i <= 62 THEN 47 + (i - 52)
        ELSE IF i = 63 THEN 43
        ELSE 47]
B64Pad == 61

B64Char(sextet) == B64Alphabet[sextet + 1]

\* base64.StdEncoding: three bytes to four characters, the tail padded with '='
RECURSIVE B64Encode(_)
B64Encode(bytes) ==
    IF Len(bytes) = 0 THEN <<>>
    ELSE IF Len(bytes) = 1 THEN
        <<B64Char(bytes[1] \div 4), B64Char((bytes[1] % 4) * 16), B64Pad, B64Pad>>
    ELSE IF Len(bytes) = 2 THEN
        <<B64Char(bytes[1] \div 4),
          B64Char((bytes[1] % 4) * 16 + bytes[2] \div 16),
          B64Char((bytes[2] % 16) * 4), B64Pad>>
    ELSE
        <<B64Char(bytes[1] \div 4),
          B64Char((bytes[1] % 4) * 16 + bytes[2] \div 16),
          B64Char((bytes[2] % 16) * 4 + bytes[3] \div 64),
          B64Char(bytes[3] % 64)>>
        \o B64Encode(SubSeq(bytes, 4, Len(bytes)))

\* encoding/pem: characters per line of a block's body
pemLineLength == 64

\* pem's lineBreaker: the body cut into lines of pemLineLength characters
RECURSIVE BreakLines(_)
BreakLines(chars) ==
    IF Len(chars) = 0 THEN <<>>
    ELSE IF Len(chars) <= pemLineLength THEN <<chars>>
    ELSE <<SubSeq(chars, 1, pemLineLength)>>
         \o BreakLines(SubSeq(chars, pemLineLength + 1, Len(chars)))

\* What the file at outputPath may be: absent, empty, holding bytes that are
\* no PEM block, or a PEM block "-----BEGIN type-----" lines "-----END type-----".
AbsentFile == [kind |-> "absent", type |-> "", lines |-> <<>>]
EmptyFile == [kind |-> "empty", type |-> "", lines |-> <<>>]
OtherFile == [kind |-> "other", type |-> "", lines |-> <<>>]

\* pem.EncodeToMemory(&pem.Block{Type: ..., Bytes: ...}), no headers
EncodeToMemory(block) ==
    [kind |-> "pem", type |-> block.Type, lines |-> BreakLines(B64Encode(block.Bytes))]

\* ioutil.WriteFile(outputPath, data, 0644): the file is opened with
\* O_WRONLY|O_CREATE|O_TRUNC and written.  outcome "ok": written; "open": the
\* open fails and the file is untouched; "write": the open truncated the file
\* and the write fails.
WriteOutcomes == {"ok", "open", "write"}
WriteFile(before, data, outcome) ==
    IF outcome = "ok" THEN [file |-> data, err |-> NoErr]
    ELSE IF outcome = "open" THEN [file |-> before, err |-> "open: permission denied"]
    ELSE [file |-> EmptyFile, err |-> "write: no space left on device"]

\* the slip of encoding and writing before looking at getCACert's error
DownloadCACertWriteFirst(h, before, outcome) ==
    LET got == getCACertResult(h)
        publicKeyPem == EncodeToMemory([Type |-> "CERTIFICATE", Bytes |-> got.cert.Raw])
        written == WriteFile(before, publicKeyPem, outcome)
    IN  [file |-> written.file, cert |-> got.cert,
         err |-> IF got.err # NoErr THEN got.err ELSE written.err]

DownloadCACertResult(h, before, outcome) ==
    LET got == getCACertResult(h) IN
    IF got.err # NoErr THEN [file |-> before, cert |-> got.cert, err |-> got.err]
    ELSE LET publicKeyBlock == [Type |-> "CERTIFICATE", Bytes |-> got.cert.Raw]
             publicKeyPem == EncodeToMemory(publicKeyBlock)
             written == WriteFile(before, publicKeyPem, outcome)
         IN  [file |-> written.file, cert |-> got.cert, err |-> written.err]

getCACert ==
    LET r == getCACertResult(host) IN
    /\ trustCall' = [trustCall EXCEPT !.op = "getCACert", !.cert = r.cert, !.err = r.err,
                                       !.before = outFile, !.write = "ok"]
    /\ UNCHANGED <<rndCall, certFiles, credCall, host, outFile, mgr>>

DownloadCACert ==
    \E outcome \in WriteOutcomes :
        LET r == DownloadCACertResult(host, outFile, outcome) IN
        /\ outFile' = r.file
        /\ trustCall' = [trustCall EXCEPT !.op = "DownloadCACert", !.cert = r.cert,
                                           !.err = r.err, !.before = outFile,
                                           !.write = outcome]
        /\ UNCHANGED <<rndCall, certFiles, credCall, host, mgr>>

StartTrust ==
    /\ outFile \in {AbsentFile, OtherFile}
    /\ host \in Hosts
    /\ trustCall = [op |-> "none", cert |-> NoCert, err |-> NoErr,
                    before |-> outFile, write |-> "ok"]

(***************************************************************************)
(* Automated certificate manager: GenerateTLSConfig                        *)
(***************************************************************************)
Domains == {"a.example.test", "b.example.test"}
Emails == {"ops@example.test", "admin@example.test"}
DomainLists == UNION {[1..n -> Domains] : n \in 0..MaxDomains}

LetsEncryptStagingCA == "Staging"
LetsEncryptProductionCA == "Production"

\* certmagic.DefaultACME and certmagic.Default: the package-level values, which
\* GenerateTLSConfig copies (cfg := certmagic.Default) and never assigns to.
DefaultACME == [CA |-> LetsEncryptProductionCA, Email |-> "", Agreed |-> FALSE]
Default == [Issuer |-> DefaultACME]

\* CacheOptions.GetConfigForCert: func(certmagic.Certificate) { return &certmagic.Default, nil }
GetConfigForCert(cert) == Default

\* acmeMgr := certmagic.ACMEManager{Agreed: true, Email: email}; CA by staging
ACMEManager(staging, email) ==
    [CA |-> IF staging THEN LetsEncryptStagingCA ELSE LetsEncryptProductionCA,
     Email |-> email, Agreed |-> TRUE]

\* A certificate of the cache: the issuer account that signed it and how many
\* times it has been renewed.
Issue(domain, issuer, serial) ==
    [domain |-> domain, CA |-> issuer.CA, Email |-> issuer.Email, serial |-> serial]

\* magic.ManageSync(domains): the domains in order, each obtained from the
\* config's issuer unless the cache already holds it; the first domain the
\* issuer refuses ends the call with its error.
RECURSIVE ManageSync(_, _, _, _, _)
ManageSync(cache, domains, i, issuer, rejected) ==
    IF i > Len(domains) THEN [cache |-> cache, err |-> NoErr]
    ELSE IF domains[i] \in DOMAIN cache
        THEN ManageSync(cache, domains, i + 1, issuer, rejected)
    ELSE IF domains[i] \in rejected
        THEN [cache |-> cache, err |-> "obtaining certificate"]
    ELSE ManageSync(cache @@ (domains[i] :> Issue(domains[i], issuer, 0)),
                    domains, i + 1, issuer, rejected)

NilTLSConfig == "nil"
EmptyCache == [d \in {} |-> Issue(d, DefaultACME, 0)]

GenerateTLSConfigResult(staging, email, domains, rejected) ==
    LET acmeMgr == ACMEManager(staging, email)
        synced == ManageSync(EmptyCache, domains, 1, acmeMgr, rejected)
    IN  [Issuer |-> acmeMgr, cache |-> synced.cache,
         tlsConfig |-> IF synced.err # NoErr THEN NilTLSConfig ELSE "magic.TLSConfig()",
         err |-> synced.err]

\* rejected: the domains for which the issuer refuses to issue (domain
\* ownership not shown, account problems)
GenerateTLSConfig ==
    \E staging \in BOOLEAN, email \in Emails, domains \in DomainLists,
       rejected \in SUBSET Domains :
        LET r == GenerateTLSConfigResult(staging, email, domains, rejected) IN
        /\ mgr' = [called |-> TRUE, staging |-> staging, email |-> email,
                   domains |-> domains, rejected |-> rejected, Issuer |-> r.Issuer,
                   cache |-> r.cache, tlsConfig |-> r.tlsConfig, err |-> r.err]
        /\ UNCHANGED <<rndCall, certFiles, credCall, host, outFile, trustCall>>

\* The cache created at config.go:100 renews a certificate it holds with the
\* configuration its GetConfigForCert option returns for that certificate.
Renew ==
    \E d \in DOMAIN mgr.cache, ok \in BOOLEAN :
        /\ mgr.called
        /\ mgr.cache[d].serial < MaxRenewals
        /\ LET cfg == GetConfigForCert(mgr.cache[d])
               renewed == Issue(d, cfg.Issuer, mgr.cache[d].serial + 1)
           IN  mgr' = IF ok THEN [mgr EXCEPT !.cache[d] = renewed, !.err = NoErr]
                      ELSE [mgr EXCEPT !.err = "renewing certificate"]
        /\ UNCHANGED <<rndCall, certFiles, credCall, host, outFile, trustCall>>

StartManager ==
    mgr = [called |-> FALSE, staging |-> FALSE, email |-> "", domains |-> <<>>,
           rejected |-> {}, Issuer |-> DefaultACME, cache |-> EmptyCache,
           tlsConfig |-> NilTLSConfig, err |-> NoErr]

(***************************************************************************)
(* Specifications.  The operations share no state, so each component is    *)
(* also specified on its own, with the rest of the package idle.           *)
(***************************************************************************)
IdleCreds ==
    /\ certFiles = [p \in Paths |-> [kind |-> "missing", cert |-> NoBlock, key |-> NoBlock]]
    /\ credCall = [called |-> FALSE, certPath |-> "server.crt", keyPath |-> "server.key",
                   creds |-> NilCreds, err |-> NoErr]

IdleTrust ==
    /\ host = [dialOk |-> FALSE, chain |-> <<>>]
    /\ outFile = AbsentFile
    /\ trustCall = [op |-> "none", cert |-> NoCert, err |-> NoErr,
                    before |-> AbsentFile, write |-> "ok"]

Init == StartRandom /\ StartCreds /\ StartTrust /\ StartManager

Next ==
    \/ GenRandomByteSlice
    \/ LoadTLSKeypair
    \/ getCACert
    \/ DownloadCACert
    \/ GenerateTLSConfig
    \/ Renew

Spec == Init /\ [][Next]_vars

InitRandom == StartRandom /\ IdleCreds /\ IdleTrust /\ StartManager
NextRandom == GenRandomByteSlice
SpecRandom == InitRandom /\ [][NextRandom]_vars

InitCreds == StartRandom /\ StartCreds /\ IdleTrust /\ StartManager
NextCreds == LoadTLSKeypair
SpecCreds == InitCreds /\ [][NextCreds]_vars

InitTrust == StartRandom /\ IdleCreds /\ StartTrust /\ StartManager
NextTrust == getCACert \/ DownloadCACert
SpecTrust == InitTrust /\ [][NextTrust]_vars

InitManager == StartRandom /\ IdleCreds /\ IdleTrust /\ StartManager
NextManager == GenerateTLSConfig \/ Renew
SpecManager == InitManager /\ [][NextManager]_vars

(***************************************************************************)
(* Properties                                                              *)
(***************************************************************************)
Min(S) == CHOOSE i \in S : \A j \in S : i <= j
Range(f) == {f[i] : i \in DOMAIN f}

\* positions of the CA-marked certificates of the chain the host presents
CAPositions == {i \in 1..Len(host.chain) : host.chain[i].IsCA}
ExtractionSucceeds == host.dialOk /\ CAPositions # {}

\* the inverse of the PEM encoding, as encoding/pem's Decode and base64's
\* DecodeString compute it: the lines joined, four characters to three bytes
B64Index(c) == CHOOSE s \in 0..63 : B64Alphabet[s + 1] = c

RECURSIVE B64Decode(_)
B64Decode(chars) ==
    IF Len(chars) < 4 THEN <<>>
    ELSE LET s1 == B64Index(chars[1])
             s2 == B64Index(chars[2])
             rest == B64Decode(SubSeq(chars, 5, Len(chars)))
         IN  IF chars[3] = B64Pad THEN <<s1 * 4 + s2 \div 16>> \o rest
             ELSE IF chars[4] = B64Pad
                 THEN <<s1 * 4 + s2 \div 16,
                        (s2 % 16) * 16 + B64Index(chars[3]) \div 4>> \o rest
             ELSE <<s1 * 4 + s2 \div 16,
                    (s2 % 16) * 16 + B64Index(chars[3]) \div 4,
                    (B64Index(chars[3]) % 4) * 64 + B64Index(chars[4])>> \o rest

RECURSIVE JoinLines(_)
JoinLines(lines) ==
    IF Len(lines) = 0 THEN <<>> ELSE Head(lines) \o JoinLines(Tail(lines))

PemDecode(file) ==
    IF file.kind # "pem" THEN [ok |-> FALSE, Type |-> "", Bytes |-> <<>>]
    ELSE [ok |-> TRUE, Type |-> file.type, Bytes |-> B64Decode(JoinLines(file.lines))]

\* C4: when the issuer refuses one managed domain while another managed domain
\* was issued, GenerateTLSConfig still produces a server configuration (for the
\* domains that were issued).
C4_OtherDomainsStillServed ==
    (/\ mgr.called
     /\ \E f \in Range(mgr.domains) : f \in mgr.rejected
     /\ \E g \in Range(mgr.domains) : g \in DOMAIN mgr.cache)
    => mgr.tlsConfig # NilTLSConfig

\* C5: getCACert returns the first CA-marked certificate of the chain in
\* presentation order; the no-CA error exactly when the handshake succeeded and
\* no certificate of the chain is CA-marked; and the connection error, whatever
\* the chain, when the handshake fails.
C5_FirstCAInPresentationOrder ==
    trustCall.op = "getCACert" =>
        /\ ~host.dialOk => trustCall.cert = NoCert /\ trustCall.err = ErrDial
        /\ ExtractionSucceeds =>
              /\ trustCall.err = NoErr
              /\ trustCall.cert = host.chain[Min(CAPositions)]
        /\ (trustCall.err = ErrNoCA) <=> (host.dialOk /\ CAPositions = {})
        /\ trustCall.err # NoErr => trustCall.cert = NoCert

\* C5 witness: a chain with two different CA-marked certificates, of which
\* getCACert returned the first.
C5_Witness ==
    /\ trustCall.op = "getCACert"
    /\ host.dialOk
    /\ Len(host.chain) = 2
    /\ host.chain[1].IsCA /\ host.chain[2].IsCA
    /\ host.chain[1] # host.chain[2]
    /\ trustCall.cert = host.chain[1]

\* C6: LoadTLSKeypair returns an error and nil credentials for every input in
\* which a file is missing or unreadable, a block is absent or malformed, or the
\* private key does not match the certificate; credentials are returned only
\* for a parsed matching pair, holding that pair, with client authentication
\* disabled.
C6_NoCredentialsOnBadInput ==
    credCall.called =>
        LET c == certFiles[credCall.certPath]
            k == certFiles[credCall.keyPath]
            validPair == /\ c.kind = "readable" /\ k.kind = "readable"
                         /\ c.cert.state = "ok" /\ k.key.state = "ok"
                         /\ c.cert.key = k.key.key
        IN  /\ ~validPair => credCall.creds = NilCreds /\ credCall.err # NoErr
            /\ validPair =>
                  /\ credCall.err = NoErr
                  /\ ~credCall.creds.nil
                  /\ credCall.creds.Certificates = <<[cert |-> c.cert.key, key |-> k.key.key]>>
                  /\ credCall.creds.ClientAuth = "NoClientCert"

\* C6 witness: a well-formed certificate and a well-formed private key of
\* another key pair were loaded, and no credentials came back.
C6_Witness ==
    /\ credCall.called
    /\ certFiles[credCall.certPath].cert.state = "ok"
    /\ certFiles[credCall.keyPath].key.state = "ok"
    /\ certFiles[credCall.certPath].cert.key # certFiles[credCall.keyPath].key.key
    /\ credCall.creds.nil
    /\ credCall.err = "tls: private key does not match public key"

\* C7: DownloadCACert changes the file only when extraction succeeded; when it
\* returns nil the file is the PEM encoding of the extracted CA certificate,
\* which decodes to that certificate's raw bytes; when extraction fails the
\* file is what it was and the extraction error is returned.
C7_FileWrittenOnlyAfterExtraction ==
    trustCall.op = "DownloadCACert" =>
        /\ ~ExtractionSucceeds =>
              /\ outFile = trustCall.before
              /\ trustCall.err = IF host.dialOk THEN ErrNoCA ELSE ErrDial
        /\ outFile # trustCall.before => ExtractionSucceeds
        /\ (ExtractionSucceeds /\ trustCall.write = "ok") => trustCall.err = NoErr
        /\ trustCall.err = NoErr =>
              /\ ExtractionSucceeds
              /\ outFile = EncodeToMemory([Type |-> "CERTIFICATE",
                                           Bytes |-> host.chain[Min(CAPositions)].Raw])
              /\ PemDecode(outFile) = [ok |-> TRUE, Type |-> "CERTIFICATE",
                                       Bytes |-> host.chain[Min(CAPositions)].Raw]

\* C7 witness: a two-certificate chain whose second certificate is the only
\* CA-marked one; its PEM encoding, more than one line long, replaced the
\* other content the file had.
C7_Witness ==
    /\ trustCall.op = "DownloadCACert"
    /\ trustCall.err = NoErr
    /\ Len(host.chain) = 2
    /\ ~host.chain[1].IsCA /\ host.chain[2].IsCA
    /\ trustCall.before = OtherFile
    /\ outFile.kind = "pem"
    /\ Len(outFile.lines) > 1
    /\ PemDecode(outFile).Bytes = host.chain[2].Raw

\* C9: every certificate of the cache, first issued or renewed, comes from the
\* issuer fixed by the GenerateTLSConfig call (the endpoint its staging flag
\* selects, its contact email), and the configuration GetConfigForCert returns
\* for a cached certificate carries that same issuer.
C9_RenewalUsesConfiguredIssuer ==
    mgr.called =>
        \A d \in DOMAIN mgr.cache :
            /\ mgr.cache[d].CA = IF mgr.staging THEN LetsEncryptStagingCA
                                 ELSE LetsEncryptProductionCA
            /\ mgr.cache[d].Email = mgr.email
            /\ GetConfigForCert(mgr.cache[d]).Issuer.CA = mgr.Issuer.CA

\* C10: a successful GenRandomByteSlice(length) returns exactly length bytes,
\* each a character of legalChars.
C10_ExactLengthLegalBytes ==
    (rndCall.called /\ rndCall.err = NoErr) =>
        /\ Len(rndCall.rnd) = rndCall.length
        /\ \A i \in 1..Len(rndCall.rnd) : rndCall.rnd[i] \in Range(legalChars)

====
